---------------------------- MODULE Spec2Model ----------------------------
(***************************************************************************)
(* Smart door camera: the detection-alert pipeline of main.py, the        *)
(* Telegram notifier of notification.py, the face recognizer of           *)
(* face_recognition.py and the detection log of utils.py.                 *)
(*                                                                         *)
(* The specifications share the variables:                                 *)
(*   Spec            the process started by main(): construction, run(),  *)
(*                   the frame loop, signals and the two cleanup calls;    *)
(*   FairSpec        Spec with the clauses of main() executed when reached;*)
(*   SpecNotifier    one TelegramNotifier instance on which a client calls *)
(*                   send_detection_alert repeatedly while the clock runs; *)
(*   SpecLog         a client of save_detection_csv;                       *)
(*   SpecSweep       a client of cleanup_old_images;                       *)
(*   SpecRecognizer  a client that enrolls faces, loads a FaceRecognizer   *)
(*                   and calls recognize_face.                             *)
(***************************************************************************)
EXTENDS Integers, Sequences, FiniteSets, TLC

\* ------------------------------------------------------------------ bounds
MaxTime == 5
MaxFrames == 2
MaxDetections == 2
MaxCalls == 3
MaxFiles == 2
MaxLines == 3
MaxSaves == 2
MaxClock == 2000

\* ------------------------------------------------------- program constants
MIN_DETECTION_INTERVAL == 2
\* config.FACE_RECOGNITION_THRESHOLD = 0.6, in tenths
FACE_RECOGNITION_THRESHOLD == 6
CHANNEL_SENTINEL == "@rpi5doorcam"
\* the sentinel main.py starts from and compares with
UNKNOWN_MAIN == "Unknown"
\* the sentinel recognize_face returns
UNKNOWN_RECOGNIZER == "UNKNOWN"
PERSON_CLASS == 0
\* config.CONFIDENCE_THRESHOLD = 0.5, in hundredths
CONFIDENCE_THRESHOLD == 50
\* time.time() of a running process is far above the interval: the clock of
\* the model starts at the smallest value strictly above it.
StartTime == MIN_DETECTION_INTERVAL + 1

KnownNames == {"alice", "bob"}
PersonNames == KnownNames \cup {UNKNOWN_MAIN, UNKNOWN_RECOGNIZER}
ClientNames == {"alice", UNKNOWN_MAIN}
PersonTypes == {"ALLOWED", "INTRUDER"}
Confidences == {90}
\* the confidences of the candidate boxes the detector weighs
CandidateConfidences == Confidences \cup {30}
Outcomes == {"ok", "TelegramError", "Exception"}
Slots == {"user_photo", "user_text", "chan_photo", "chan_text"}
Nets == [Slots -> Outcomes]
ChannelIds == {"", CHANNEL_SENTINEL, "@family"}

\* A frame of FrameH rows and FrameW columns (frame.shape).
FrameH == 4
FrameW == 4
\* box.xyxy[0] after map(int, ...): x1, y1, x2, y2
Geometries == {<<1, 1, 3, 3>>, <<2, 1, 2, 3>>, <<-1, 1, 2, 6>>, <<5, 1, 7, 3>>}
\* What the face library finds in a crop: no face, an exception, or the
\* encoding of the first face (a point on a line, distances in tenths).
Face(kind, e) == [kind |-> kind, enc |-> e]
Faces == {Face("noface", 0), Face("error", 0), Face("face", 2),
          Face("face", 7), Face("face", 20)}
\* The encodings *.npy of known_faces/, in the order glob yields them.
Enc(name, e) == [name |-> name, enc |-> e]
KnownFacesDirs == {<<>>, <<Enc("alice", 2), Enc("bob", 12)>>}

VARIABLES
    \* --- the clock and the configuration (config.py)
    now,                \* datetime.now().timestamp(), whole seconds
    send_image,         \* config.SEND_IMAGE_WITH_ALERT
    channel_id,         \* config.TELEGRAM_CHANNEL_ID
    \* --- TelegramNotifier
    last_alert_time,    \* self.last_alert_time of the client's notifier
    \* --- observation of the notifier's calls
    lastCall,           \* what the last send_detection_alert call did
    \* --- main() and SmartDoorCamera
    pc,                 \* the statement main() is at
    camera,             \* main's local "camera" is bound to the object
    running,            \* self.running
    cap,                \* self.cap: "None", "closed", "opened", "released"
    face_recognizer,    \* self.face_recognizer: absent (None) or the recognizer
    pending,            \* the exception travelling up the stack, or "none"
    exit_status,        \* the exit status of the process, -1 while it runs
    \* --- the frame loop
    frames,             \* frame_count
    detections,         \* detections retained so far
    cur,                \* the detection being processed
    \* --- detections/detection_log.csv
    log_file,           \* whether the file exists, and its lines
    csv_error,          \* the last save_detection_csv logged a write error
    \* --- detections/ as cleanup_old_images finds it
    detections_dir,     \* the files, in the order glob yields them
    sweep,              \* what the last cleanup_old_images call did
    \* --- known_faces/ and a client that enrolls and recognizes
    known_faces_dir,    \* the *.npy written so far, in the order glob yields
    enrolled,           \* per name, the image it was last enrolled from
    query,              \* what the client's last recognize_face call did
    \* --- detections/ as _save_detection_image fills it
    wall_clock,         \* datetime.now(), in microseconds
    images,             \* the image files: name and content
    saved,              \* detections whose image was written so far
    \* --- a client of get_detection_stats
    stats,              \* what the last get_detection_stats call did
    \* --- observation of the process
    cleanups,           \* calls of _cleanup so far
    finally_cut,        \* a signal arrived inside the finally of main()
    signalled,          \* a termination signal was delivered
    stop_requested,     \* stop() was called
    read_released,      \* cap.read() was called after the device release
    notices             \* the notices attempted: startup and error notices

notifierVars == <<now, send_image, channel_id, last_alert_time, lastCall>>
procVars == <<pc, camera, running, cap, face_recognizer, pending,
              exit_status>>
loopVars == <<frames, detections, cur>>
storeVars == <<wall_clock, images, saved>>
fileVars == <<log_file, csv_error, detections_dir, sweep, known_faces_dir,
             enrolled, query, storeVars, stats>>
obsVars == <<cleanups, finally_cut, signalled, stop_requested, read_released,
            notices>>

vars == <<notifierVars, procVars, loopVars, fileVars, obsVars>>

\* ------------------------------------------------------------ dictionaries
EmptyTable == <<>>

\* dict.get(person_name, 0)
TableGet(lat, person_name) ==
    IF person_name \in DOMAIN lat THEN lat[person_name] ELSE 0

\* dict[person_name] = t
TablePut(lat, person_name, t) ==
    [n \in (DOMAIN lat) \cup {person_name} |->
        IF n = person_name THEN t ELSE lat[n]]

\* ------------------------------------------------------ initial values
NoFile == [exists |-> FALSE, lines |-> <<>>]
Header == [kind |-> "header", timestamp |-> 0, person_type |-> "",
           person_name |-> "", confidence |-> 0]
File(lines) == [exists |-> TRUE, lines |-> lines]
NoRecognizer == [present |-> FALSE, lib |-> FALSE, known_faces |-> <<>>]
NoDetection == [person_name |-> "", person_type |-> "", confidence |-> 0,
                image_path |-> "", written |-> FALSE, cls |-> -1,
                xyxy |-> <<0, 0, 0, 0>>]
NoSweep == [turn |-> FALSE, days |-> 0, error |-> FALSE]
NoQuery == [turn |-> FALSE, image |-> <<>>, face |-> "noface", tolerance |-> 0,
            result |-> ""]

\* ----------------------------------------------------- notification.py
_check_rate_limit_no_boundary(lat, person_name, current_time) ==
    (current_time - TableGet(lat, person_name)) > MIN_DETECTION_INTERVAL

_check_rate_limit_absent_is_now(lat, person_name, current_time) ==
    (current_time - (IF person_name \in DOMAIN lat THEN lat[person_name]
                     ELSE current_time)) >= MIN_DETECTION_INTERVAL

_check_rate_limit_ignores_entry(lat, person_name, current_time) ==
    current_time >= MIN_DETECTION_INTERVAL

\* TelegramNotifier._check_rate_limit
_check_rate_limit(lat, person_name, current_time) ==
    (current_time - TableGet(lat, person_name)) >= MIN_DETECTION_INTERVAL

_update_rate_limit_everyone(lat, person_name, current_time) ==
    [n \in (DOMAIN lat) \cup ClientNames |-> current_time]

\* TelegramNotifier._update_rate_limit
_update_rate_limit(lat, person_name, current_time) ==
    TablePut(lat, person_name, current_time)

\* One call of the transport: bot.send_photo or bot.send_message.
Attempt(dest, kind, outcome, msg) ==
    [dest |-> dest, kind |-> kind, outcome |-> outcome, msg |-> msg]

\* TelegramNotifier._send_photo_with_caption: the transport calls it makes.
\* It never raises: a missing file returns at once, a failed photo falls
\* back to the caption as text and a failed fallback is logged.
_send_photo_with_caption(chat, photo_exists, net, msg) ==
    LET photo == IF chat = "user" THEN net["user_photo"] ELSE net["chan_photo"]
        text  == IF chat = "user" THEN net["user_text"] ELSE net["chan_text"]
    IN  IF ~photo_exists THEN <<>>
        ELSE IF photo = "ok" THEN <<Attempt(chat, "photo", "ok", msg)>>
        ELSE <<Attempt(chat, "photo", photo, msg),
               Attempt(chat, "text", text, msg)>>

\* The text of an alert: status and person (confidence and time left out).
Message(person_type, person_name) ==
    [person_type |-> person_type, person_name |-> person_name]

\* "image_path and config.SEND_IMAGE_WITH_ALERT": None and "" are both falsy.
Attach(image_path) == image_path # "" /\ send_image

\* "self.channel_id and self.channel_id != '@rpi5doorcam'"
ChannelConfigured == channel_id # "" /\ channel_id # CHANNEL_SENTINEL

\* What a call of send_detection_alert returns to the model:
\*   lat         self.last_alert_time after the call
\*   suppressed  the rate-limit check returned early
\*   attempts    the transport calls made, in order
\*   caught      the exception the two except clauses caught ("none" if none)
\*   raised      an exception left the coroutine
AlertResult(lat, suppressed, attempts, caught, raised) ==
    [lat |-> lat, suppressed |-> suppressed, attempts |-> attempts,
     caught |-> caught, raised |-> raised]

\* The send to the user that a call starts once the rate-limit check has
\* passed (lines 73-85): _send_photo_with_caption or bot.send_message.
UserSend(image_path) == IF Attach(image_path) THEN "photo" ELSE "text"

Suppressed_updates(lat, person_name, t_check) ==
    AlertResult(_update_rate_limit(lat, person_name, t_check), TRUE, <<>>,
                "none", FALSE)

\* The early return of send_detection_alert (lines 53-56).
Suppressed(lat, person_name, t_check) ==
    AlertResult(lat, TRUE, <<>>, "none", FALSE)

TextSendFailed_updates(lat, person_name, t_update, outcome, msg) ==
    AlertResult(_update_rate_limit(lat, person_name, t_update), FALSE,
                <<Attempt("user", "text", outcome, msg)>>, outcome, FALSE)

TextSendFailed_reraises(lat, person_name, t_update, outcome, msg) ==
    AlertResult(lat, FALSE, <<Attempt("user", "text", outcome, msg)>>,
                outcome, outcome # "TelegramError")

\* The text-only send to the user raised: "except TelegramError" or
\* "except Exception" logs it; _update_rate_limit is not reached.
TextSendFailed(lat, person_name, t_update, outcome, msg) ==
    AlertResult(lat, FALSE, <<Attempt("user", "text", outcome, msg)>>,
                outcome, FALSE)

\* The sends to the channel (lines 87-95): only a photo, never a text.
ChannelSends(image_path, photo_exists, net, msg) ==
    IF ChannelConfigured /\ Attach(image_path)
    THEN _send_photo_with_caption("chan", photo_exists, net, msg)
    ELSE <<>>

\* TelegramNotifier.send_detection_alert. t_check is the clock read by
\* _check_rate_limit, t_update the clock read by _update_rate_limit.
send_detection_alert(lat, person_type, image_path, person_name, t_check, t_update, photo_exists, net) ==
    LET msg == Message(person_type, person_name)
    IN  IF ~_check_rate_limit(lat, person_name, t_check)
        THEN Suppressed(lat, person_name, t_check)
        ELSE IF Attach(image_path)
        THEN AlertResult(
                _update_rate_limit(lat, person_name, t_update), FALSE,
                _send_photo_with_caption("user", photo_exists, net, msg)
                    \o ChannelSends(image_path, photo_exists, net, msg),
                "none", FALSE)
        ELSE IF net["user_text"] # "ok"
        THEN TextSendFailed(lat, person_name, t_update, net["user_text"], msg)
        ELSE AlertResult(
                _update_rate_limit(lat, person_name, t_update), FALSE,
                <<Attempt("user", "text", "ok", msg)>>
                    \o ChannelSends(image_path, photo_exists, net, msg),
                "none", FALSE)

\* send_detection_sync: a new TelegramNotifier, whose last_alert_time is
\* empty, is built for every call and dropped after it.
send_detection_sync(person_type, image_path, person_name, t_check, t_update, photo_exists, net) ==
    send_detection_alert(EmptyTable, person_type, image_path,
                         person_name, t_check, t_update, photo_exists, net)

\* config.SEND_STARTUP_NOTIFICATION and config.SEND_ERROR_NOTIFICATIONS
SEND_STARTUP_NOTIFICATION == TRUE
SEND_ERROR_NOTIFICATIONS == TRUE

\* What a call of a notice method returns to the model: the transport
\* calls it made, the exception its except clause caught and whether an
\* exception left the coroutine.
NoticeResult(attempts, caught, raised) ==
    [attempts |-> attempts, caught |-> caught, raised |-> raised]

\* The text of a notice.
NoticeMessage(kind) == Message(kind, "")

\* TelegramNotifier.send_startup_notification: one text to the user inside
\* "try ... except Exception"; self.last_alert_time is not touched.
send_startup_notification(outcome) ==
    IF ~SEND_STARTUP_NOTIFICATION THEN NoticeResult(<<>>, "none", FALSE)
    ELSE NoticeResult(
            <<Attempt("user", "text", outcome, NoticeMessage("startup"))>>,
            IF outcome = "ok" THEN "none" ELSE outcome, FALSE)

send_error_notification_unguarded(outcome) ==
    NoticeResult(<<Attempt("user", "text", outcome, NoticeMessage("error"))>>,
                 "none", outcome # "ok")

\* TelegramNotifier.send_error_notification: the same, for an error.
send_error_notification(outcome) ==
    IF ~SEND_ERROR_NOTIFICATIONS THEN NoticeResult(<<>>, "none", FALSE)
    ELSE NoticeResult(
            <<Attempt("user", "text", outcome, NoticeMessage("error"))>>,
            IF outcome = "ok" THEN "none" ELSE outcome, FALSE)

\* send_startup_sync and send_error_sync: a new TelegramNotifier for the
\* call, and asyncio.run of the coroutine.
send_startup_sync(outcome) == send_startup_notification(outcome)

send_error_sync(outcome) == send_error_notification(outcome)

\* ------------------------------------------------- face_recognition.py
Abs(x) == IF x < 0 THEN -x ELSE x
Max(a, b) == IF a > b THEN a ELSE b
Min(a, b) == IF a < b THEN a ELSE b

\* float('inf')
Infinity == 1000

\* np.linalg.norm(detected_encoding - known_encoding)
Distance(detected, known) == Abs(detected - known)

\* The loop over self.known_faces.items() (lines 111-120): the closest
\* encoding so far, replaced only by a strictly smaller distance.
RECURSIVE Closest_last_wins(_, _, _, _)
Closest_last_wins(known_faces, detected, min_distance, matched_name) ==
    IF known_faces = <<>>
    THEN [distance |-> min_distance, name |-> matched_name]
    ELSE LET distance == Distance(detected, Head(known_faces).enc)
         IN  IF distance <= min_distance
             THEN Closest_last_wins(Tail(known_faces), detected, distance,
                                    Head(known_faces).name)
             ELSE Closest_last_wins(Tail(known_faces), detected,
                                    min_distance, matched_name)

RECURSIVE Closest(_, _, _, _)
Closest(known_faces, detected, min_distance, matched_name) ==
    IF known_faces = <<>>
    THEN [distance |-> min_distance, name |-> matched_name]
    ELSE LET distance == Distance(detected, Head(known_faces).enc)
         IN  IF distance < min_distance
             THEN Closest(Tail(known_faces), detected, distance,
                          Head(known_faces).name)
             ELSE Closest(Tail(known_faces), detected, min_distance,
                          matched_name)

\* FaceRecognizer.recognize_face
recognize_face(fr, face, tolerance) ==
    IF ~fr.lib \/ fr.known_faces = <<>> THEN UNKNOWN_RECOGNIZER
    ELSE IF face.kind = "error" THEN UNKNOWN_RECOGNIZER
    ELSE IF face.kind = "noface" THEN UNKNOWN_RECOGNIZER
    ELSE LET m == Closest(fr.known_faces, face.enc, Infinity,
                          UNKNOWN_RECOGNIZER)
         IN  IF m.distance < tolerance THEN m.name ELSE UNKNOWN_RECOGNIZER

\* An image is the encodings face_encodings finds in it, in its order.
EncValues == {2, 7, 12}
Images ==
    {<<>>} \cup {<<e>> : e \in EncValues} \cup {<<2, 7>>}
\* tolerances, in tenths
Tolerances == {0, 1, 5, FACE_RECOGNITION_THRESHOLD}

\* What recognize_face gets from the library for a crop of the image.
FaceOf(image) ==
    IF image = <<>> THEN Face("noface", 0) ELSE Face("face", image[1])

\* np.save(output_dir / f"{person_name}.npy", encoding): an existing file
\* is overwritten, a new one shows up at place pos of the glob.
SaveEncoding(dir, person_name, encoding, pos) ==
    IF \E i \in DOMAIN dir : dir[i].name = person_name
    THEN [i \in DOMAIN dir |->
            IF dir[i].name = person_name THEN Enc(person_name, encoding)
            ELSE dir[i]]
    ELSE SubSeq(dir, 1, pos - 1) \o <<Enc(person_name, encoding)>>
            \o SubSeq(dir, pos, Len(dir))

encode_and_save_face_last(dir, image, person_name, lib, pos) ==
    IF ~lib \/ image = <<>> THEN [ok |-> FALSE, dir |-> dir]
    ELSE [ok |-> TRUE,
          dir |-> SaveEncoding(dir, person_name, image[Len(image)], pos)]

\* FaceRecognizer.encode_and_save_face: False without the library or
\* without a face; else the first encoding is saved.
encode_and_save_face(dir, image, person_name, lib, pos) ==
    IF ~lib \/ image = <<>> THEN [ok |-> FALSE, dir |-> dir]
    ELSE [ok |-> TRUE, dir |-> SaveEncoding(dir, person_name, image[1], pos)]

\* FaceRecognizer.__init__: _load_library, then _load_known_faces, which
\* loads nothing when the library is missing.
FaceRecognizer(lib, dir) ==
    [present |-> TRUE, lib |-> lib,
     known_faces |-> IF lib THEN dir ELSE <<>>]

\* -------------------------------------------------------------- main.py
\* The length of the slice [lo:hi] of a sequence of n items.
SliceIndex(i, n) == IF i < 0 THEN Max(0, i + n) ELSE Min(i, n)
SliceLen(lo, hi, n) == Max(0, SliceIndex(hi, n) - SliceIndex(lo, n))

\* crop.size for frame[max(0,y1):min(H,y2), max(0,x1):min(W,x2)]
CropSize(g) ==
    SliceLen(Max(0, g[2]), Min(FrameH, g[4]), FrameH)
        * SliceLen(Max(0, g[1]), Min(FrameW, g[3]), FrameW)

\* The crop frame[max(0,y1):min(H,y2), max(0,x1):min(W,x2)]: its bounds
Crop(g) ==
    [top |-> Max(0, g[2]), bottom |-> Min(FrameH, g[4]),
     left |-> Max(0, g[1]), right |-> Min(FrameW, g[3])]

\* self.model(frame, conf=config.CONFIDENCE_THRESHOLD): the detector reports
\* no box below the threshold.
Reported(box) == box.conf >= CONFIDENCE_THRESHOLD

Retained_any_class(box) ==
    /\ ~(box.xyxy[1] >= box.xyxy[3] \/ box.xyxy[2] >= box.xyxy[4])
    /\ CropSize(box.xyxy) # 0

\* The three "continue" tests of _process_frame (lines 205-220).
Retained(box) ==
    /\ box.cls = PERSON_CLASS
    /\ ~(box.xyxy[1] >= box.xyxy[3] \/ box.xyxy[2] >= box.xyxy[4])
    /\ CropSize(box.xyxy) # 0

\* Lines 223-228: the name starts as "Unknown" and is replaced by the
\* recognizer's answer when there is a recognizer.
PersonName(fr, face) ==
    IF fr.present
    THEN recognize_face(fr, face, FACE_RECOGNITION_THRESHOLD)
    ELSE UNKNOWN_MAIN

\* Line 231
PersonType(person_name) ==
    IF person_name # UNKNOWN_MAIN THEN "ALLOWED" ELSE "INTRUDER"

Boxes ==
    [cls : {0, 1}, conf : CandidateConfidences, xyxy : Geometries,
     face : Faces]

\* ------------------------------------------------------------- utils.py
Row(timestamp, person_type, person_name, confidence) ==
    [kind |-> "row", timestamp |-> timestamp, person_type |-> person_type,
     person_name |-> person_name, confidence |-> confidence]

save_detection_csv_truncates(file, timestamp, person_type, person_name, confidence) ==
    File(<<Header, Row(timestamp, person_type, person_name, confidence)>>)

save_detection_csv_always_header(file, timestamp, person_type, person_name, confidence) ==
    File(file.lines
            \o <<Header, Row(timestamp, person_type, person_name, confidence)>>)

\* save_detection_csv when the file can be opened: the header is written
\* first iff the file did not exist, then the row.
save_detection_csv(file, timestamp, person_type, person_name, confidence) ==
    File((IF file.exists THEN file.lines ELSE <<Header>>)
            \o <<Row(timestamp, person_type, person_name, confidence)>>)

\* config.CLEANUP_OLD_IMAGES
CLEANUP_OLD_IMAGES == TRUE
\* timedelta(days=1) on the clock of the model
DAY == 1

\* A file of detections/: an image "detection_*.jpg" or another file (the
\* log), its st_mtime, and whether unlink() raises on it.
StoredFile(kind, mtime, locked) ==
    [kind |-> kind, mtime |-> mtime, locked |-> locked]
MTimes == 1..MaxTime
StoredFiles ==
    {StoredFile("image", m, l) : m \in MTimes, l \in BOOLEAN}
        \cup {StoredFile("other", m, FALSE) : m \in MTimes}
Dirs == UNION {[1..n -> StoredFiles] : n \in 0..MaxFiles}

\* DETECTIONS_DIR.glob("detection_*.jpg")
Globbed(file) == file.kind = "image"

Old_inclusive(file, cutoff) == file.mtime <= cutoff

\* image_file.stat().st_mtime < cutoff_date.timestamp()
Old(file, cutoff) == file.mtime < cutoff

\* The loop of cleanup_old_images (lines 56-59) over the directory: an old
\* image is unlinked; an unlink that raises ends the loop in the "except
\* Exception" of line 64, and the files not yet visited stay.
RECURSIVE SweepLoop(_, _)
SweepLoop(files, cutoff) ==
    IF files = <<>> THEN [files |-> <<>>, error |-> FALSE]
    ELSE LET file == Head(files)
         IN  IF Globbed(file) /\ Old(file, cutoff)
             THEN IF file.locked
                  THEN [files |-> files, error |-> TRUE]
                  ELSE SweepLoop(Tail(files), cutoff)
             ELSE LET rest == SweepLoop(Tail(files), cutoff)
                  IN  [files |-> <<file>> \o rest.files,
                       error |-> rest.error]

\* cleanup_old_images(days) called at time t
cleanup_old_images(files, days, t) ==
    IF ~CLEANUP_OLD_IMAGES THEN [files |-> files, error |-> FALSE]
    ELSE SweepLoop(files, t - days * DAY)

\* How writing the log can fail: open() raises and nothing changes; the
\* file is opened (and created when missing) but nothing reaches it; or the
\* header reaches it and the row does not.
CsvFailures == {"open", "header", "row"}
CsvOutcomes == {"ok"} \cup CsvFailures

\* save_detection_csv when an exception reaches its "except Exception"
\* (lines 103-104): what is left of the file.
save_detection_csv_failed(file, failure) ==
    CASE failure = "open" -> file
      [] failure = "header" -> [exists |-> TRUE, lines |-> file.lines]
      [] OTHER -> File(IF file.exists THEN file.lines ELSE <<Header>>)

\* timedelta(hours=1) on the clock of the model
HOUR == 1

\* The text of a timestamp or confidence cell that fromisoformat or float
\* rejects is written as a negative number.
Parses(cell) == cell >= 0

\* stats as get_detection_stats builds it (lines 118-124): unique_persons
\* is a set until the end of the function.
NoStats ==
    [total_detections |-> 0, allowed_count |-> 0, intruder_count |-> 0,
     unique_persons |-> {}, average_confidence |-> <<0, 1>>]

\* csv.DictReader names the cells of every later line by the first line:
\* row['timestamp'] is found only if that line is the header.
HasField(lines) == lines # <<>> /\ Head(lines) = Header

\* The body of "for row in reader" (lines 137-154) over the lines after the
\* first: acc is stats with the list confidences. A row whose timestamp
\* does not parse, or that has no such cell, raises and is only logged; a
\* row before the cutoff is passed over; a confidence that does not parse
\* raises after the counts were made.
RECURSIVE Aggregate(_, _, _, _)
Aggregate(lines, keyed, cutoff_time, acc) ==
    IF lines = <<>> THEN acc
    ELSE LET row == Head(lines)
             timestamp_ok == keyed /\ row.kind = "row" /\ Parses(row.timestamp)
         IN  IF ~timestamp_ok
             THEN Aggregate(Tail(lines), keyed, cutoff_time, acc)
             ELSE IF row.timestamp < cutoff_time
             THEN Aggregate(Tail(lines), keyed, cutoff_time, acc)
             ELSE Aggregate(Tail(lines), keyed, cutoff_time,
                    [total_detections |-> acc.total_detections + 1,
                     unique_persons |->
                        acc.unique_persons \cup {row.person_name},
                     allowed_count |-> acc.allowed_count
                        + (IF row.person_type = "ALLOWED" THEN 1 ELSE 0),
                     intruder_count |-> acc.intruder_count
                        + (IF row.person_type = "ALLOWED" THEN 0 ELSE 1),
                     confidences |-> IF Parses(row.confidence)
                        THEN Append(acc.confidences, row.confidence)
                        ELSE acc.confidences])

RECURSIVE Sum(_)
Sum(seq) == IF seq = <<>> THEN 0 ELSE Head(seq) + Sum(Tail(seq))

\* get_detection_stats(hours) read at time t; readable is whether open()
\* succeeds. The mean is the pair (sum, count) of its quotient.
get_detection_stats(file, hours, t, readable) ==
    IF ~file.exists THEN NoStats
    ELSE IF ~readable THEN NoStats
    ELSE LET acc == Aggregate(IF file.lines = <<>> THEN <<>>
                              ELSE Tail(file.lines),
                              HasField(file.lines), t - hours * HOUR,
                              [total_detections |-> 0, allowed_count |-> 0,
                               intruder_count |-> 0, unique_persons |-> {},
                               confidences |-> <<>>])
         IN  [total_detections |-> acc.total_detections,
              allowed_count |-> acc.allowed_count,
              intruder_count |-> acc.intruder_count,
              unique_persons |-> Cardinality(acc.unique_persons),
              average_confidence |->
                 IF acc.confidences = <<>> THEN <<0, 1>>
                 ELSE <<Sum(acc.confidences), Len(acc.confidences)>>]

\* The lines a log can hold: the header, and rows with any cells.
LogTimes == {-1, 1, 3}
LogConfidences == {-1, 90}
LogLines ==
    {Header} \cup {Row(ts, PersonType(n), n, c) :
                      ts \in LogTimes, n \in ClientNames, c \in LogConfidences}
Logs ==
    {NoFile} \cup {File(lines) :
                     lines \in UNION {[1..n -> LogLines] : n \in 0..MaxLines}}

NoStatsCall ==
    [turn |-> FALSE, hours |-> 0, t |-> 0, readable |-> FALSE,
     result |-> NoStats]

\* ------------------------------------------- main.py: the stored images
\* How a call of _save_detection_image can end: the file is written; an
\* exception is raised before or by cv2.imwrite; or cv2.imwrite cannot
\* write the file and says so by returning False, which is not read.
WriteOutcomes == {"written", "raised", "not_written"}

\* The path _save_detection_image returns (lines 294-300).
SavedPath(outcome) == IF outcome = "raised" THEN "" ELSE "img"

\* strftime("%Y%m%d_%H%M%S_%f")[:-3]: the last three digits of the
\* microseconds are cut off.
US_PER_MS == 1000
Timestamp(t) == t \div US_PER_MS

\* f"detection_{person_name}_{timestamp}.jpg"
FileName(person_name, t) == <<person_name, Timestamp(t)>>

\* cv2.imwrite(path, image): the file is created, or replaced if there is
\* one of that name.
ImWrite(dir, name, content) ==
    {f \in dir : f.name # name} \cup {[name |-> name, content |-> content]}

\* _save_detection_image at clock reading t, as to detections/: content
\* stands for the annotated frame of this detection.
_save_detection_image(dir, person_name, t, content, outcome) ==
    IF outcome = "written"
    THEN ImWrite(dir, FileName(person_name, t), content)
    ELSE dir

\* The time one step of the clock, or one call, can take, in microseconds.
ClockSteps == {250, 1000}

\* --------------------------------------------------- the environment
\* The transport outcomes a call can meet. A slot the call does not reach
\* is fixed to "ok", so that each behaviour of the call is drawn once.
UsedSlots(lat, image_path, person_name, t_check, photo_exists) ==
    IF ~_check_rate_limit(lat, person_name, t_check) THEN {}
    ELSE IF ~Attach(image_path) THEN {"user_text"}
    ELSE IF ~photo_exists THEN {}
    ELSE {"user_photo", "user_text"}
         \cup (IF ChannelConfigured THEN {"chan_photo", "chan_text"} ELSE {})

Pick(used, slot) == IF slot \in used THEN Outcomes ELSE {"ok"}

MakeNet(up, ut, cp, ct) ==
    [s \in Slots |-> CASE s = "user_photo" -> up [] s = "user_text" -> ut
                       [] s = "chan_photo" -> cp [] OTHER -> ct]

\* The fallback text of a destination is reached only if its photo failed.
NetsFor(used) ==
    {MakeNet(up, ut, cp, ct) :
        up \in Pick(used, "user_photo"), ut \in Pick(used, "user_text"),
        cp \in Pick(used, "chan_photo"), ct \in Pick(used, "chan_text")}

Canonical(net, used) ==
    /\ ("user_photo" \in used /\ net["user_photo"] = "ok")
          => net["user_text"] = "ok"
    /\ net["chan_photo"] = "ok" => net["chan_text"] = "ok"

\* ------------------------------------------------ observation of a call
NoCall ==
    [via |-> "none", turn |-> FALSE, t |-> 0, entry |-> 0, person_type |-> "",
     image_path |-> "", person_name |-> "", photo_exists |-> FALSE,
     suppressed |-> FALSE, send |-> "none", attempts |-> <<>>,
     caught |-> "none", raised |-> FALSE]

\* The inputs and the outcome of a call of send_detection_alert: via is
\* "sync" for send_detection_sync and "direct" for a client's own notifier,
\* turn changes with every call, t is the clock the rate-limit check read,
\* entry what it read from last_alert_time (0 when there was no entry),
\* send the send to the user that was started ("none" when suppressed).
CallRecord(via, t, entry, person_type, image_path, person_name, photo_exists, res) ==
    [via |-> via, turn |-> ~lastCall.turn, t |-> t, entry |-> entry,
     person_type |-> person_type, image_path |-> image_path,
     person_name |-> person_name, photo_exists |-> photo_exists,
     suppressed |-> res.suppressed,
     send |-> IF res.suppressed THEN "none" ELSE UserSend(image_path),
     attempts |-> res.attempts, caught |-> res.caught, raised |-> res.raised]

\* The outcome of a call of a notice method, in the same form: via is
\* "startup" or "error".
NoticeRecord(via, t, res) ==
    [NoCall EXCEPT !.via = via, !.turn = ~lastCall.turn, !.t = t,
                   !.attempts = res.attempts, !.caught = res.caught,
                   !.raised = res.raised]

\* ------------------------------------------------------------------- Init
\* main() has installed its signal handlers and has built nothing yet.
Idle ==
    /\ pc = "main"
    /\ camera = FALSE
    /\ running = FALSE
    /\ cap = "None"
    /\ face_recognizer = NoRecognizer
    /\ pending = "none"
    /\ exit_status = -1
    /\ frames = 0
    /\ detections = 0
    /\ cur = NoDetection
    /\ csv_error = FALSE
    /\ cleanups = 0
    /\ finally_cut = FALSE
    /\ signalled = FALSE
    /\ stop_requested = FALSE
    /\ read_released = FALSE
    /\ notices = {}
    /\ wall_clock = 0
    /\ images = {}
    /\ saved = 0
    /\ stats = NoStatsCall

\* The process of main.py under config.py as it stands: images are attached
\* and the channel is the sentinel. There is no log file yet.
Init ==
    /\ now = StartTime
    /\ send_image = TRUE
    /\ channel_id = CHANNEL_SENTINEL
    /\ last_alert_time = EmptyTable
    /\ lastCall = NoCall
    /\ log_file = NoFile
    /\ detections_dir = <<>>
    /\ sweep = NoSweep
    /\ known_faces_dir = <<>>
    /\ enrolled = EmptyTable
    /\ query = NoQuery
    /\ Idle

\* A client's notifier, under any configuration of the alert options.
InitNotifier ==
    /\ now = StartTime
    /\ send_image \in BOOLEAN
    /\ channel_id \in ChannelIds
    /\ last_alert_time = EmptyTable
    /\ lastCall = NoCall
    /\ log_file = NoFile
    /\ detections_dir = <<>>
    /\ sweep = NoSweep
    /\ known_faces_dir = <<>>
    /\ enrolled = EmptyTable
    /\ query = NoQuery
    /\ Idle

\* ------------------------------------------- a client of one notifier
\* The clock advances between calls.
Tick ==
    /\ now < MaxTime
    /\ now' = now + 1
    /\ UNCHANGED <<send_image, channel_id, last_alert_time, lastCall>>
    /\ UNCHANGED <<procVars, loopVars, fileVars, obsVars>>

\* await notifier.send_detection_alert(...) on the client's notifier, with
\* the person type main.py derives from the name; the call reads the clock
\* for the rate-limit check and returns d seconds later.
NotifierAlert ==
    /\ \E image_path \in {"", "img"}, person_name \in ClientNames,
          photo_exists \in BOOLEAN, d \in 0..1 :
        /\ now + d <= MaxTime
        /\ image_path = "" => photo_exists = FALSE
        /\ \E net \in NetsFor(UsedSlots(last_alert_time, image_path,
                                        person_name, now, photo_exists)) :
            /\ Canonical(net, UsedSlots(last_alert_time, image_path,
                                        person_name, now, photo_exists))
            /\ LET res == send_detection_alert(last_alert_time,
                             PersonType(person_name), image_path,
                             person_name, now, now + d, photo_exists, net)
               IN  /\ last_alert_time' = res.lat
                   /\ lastCall' = CallRecord("direct", now,
                                     TableGet(last_alert_time, person_name),
                                     PersonType(person_name), image_path,
                                     person_name, photo_exists, res)
        /\ now' = now + d
    /\ UNCHANGED <<send_image, channel_id>>
    /\ UNCHANGED <<procVars, loopVars, fileVars, obsVars>>

NextNotifier == Tick \/ NotifierAlert

SpecNotifier == InitNotifier /\ [][NextNotifier]_vars

\* ------------------- a client of one notifier, whatever the clock reads
\* datetime.now().timestamp() reads any time from the epoch on when the
\* notifier is built.
InitEpoch ==
    /\ now \in 0..StartTime
    /\ send_image \in BOOLEAN
    /\ channel_id \in ChannelIds
    /\ last_alert_time = EmptyTable
    /\ lastCall = NoCall
    /\ log_file = NoFile
    /\ detections_dir = <<>>
    /\ sweep = NoSweep
    /\ known_faces_dir = <<>>
    /\ enrolled = EmptyTable
    /\ query = NoQuery
    /\ Idle

SpecEpoch == InitEpoch /\ [][NextNotifier]_vars

\* --------------------- a client of one notifier that also sends notices
\* await notifier.send_startup_notification() on the client's notifier.
StartupNotice ==
    /\ \E outcome \in Outcomes :
        lastCall' = NoticeRecord("startup", now,
                                 send_startup_notification(outcome))
    /\ UNCHANGED <<now, send_image, channel_id, last_alert_time>>
    /\ UNCHANGED <<procVars, loopVars, fileVars, obsVars>>

\* await notifier.send_error_notification(error_msg) on the same notifier.
ErrorNotice ==
    /\ \E outcome \in Outcomes :
        lastCall' = NoticeRecord("error", now,
                                 send_error_notification(outcome))
    /\ UNCHANGED <<now, send_image, channel_id, last_alert_time>>
    /\ UNCHANGED <<procVars, loopVars, fileVars, obsVars>>

NextNotices == Tick \/ NotifierAlert \/ StartupNotice \/ ErrorNotice

SpecNotices == InitNotifier /\ [][NextNotices]_vars

\* ------------------------------------------- a client of the log file
\* save_detection_csv(...) called by a client, starting from no log file;
\* detections counts the calls, cur holds the detection that was passed.
LogDetection ==
    /\ detections < MaxCalls
    /\ detections' = detections + 1
    /\ \E person_name \in ClientNames, confidence \in Confidences,
          outcome \in CsvOutcomes :
        /\ cur' = [person_name |-> person_name,
                   person_type |-> PersonType(person_name),
                   confidence |-> confidence, image_path |-> "",
                   written |-> FALSE, cls |-> PERSON_CLASS,
                   xyxy |-> <<0, 0, 0, 0>>]
        /\ csv_error' = (outcome # "ok")
        /\ log_file' = IF outcome = "ok"
                       THEN save_detection_csv(log_file, now,
                                PersonType(person_name), person_name,
                                confidence)
                       ELSE save_detection_csv_failed(log_file, outcome)
    /\ UNCHANGED <<frames, detections_dir, sweep>>
    /\ UNCHANGED <<known_faces_dir, enrolled, query>>
    /\ UNCHANGED <<storeVars, stats>>
    /\ UNCHANGED <<notifierVars, procVars, obsVars>>

NextLog == Tick \/ LogDetection

SpecLog == Init /\ [][NextLog]_vars

\* --------------------------------------- a client of the image sweep
\* detections/ holds any files when the sweeps begin.
InitSweep ==
    /\ now = StartTime
    /\ send_image = TRUE
    /\ channel_id = CHANNEL_SENTINEL
    /\ last_alert_time = EmptyTable
    /\ lastCall = NoCall
    /\ log_file = NoFile
    /\ detections_dir \in Dirs
    /\ sweep = NoSweep
    /\ known_faces_dir = <<>>
    /\ enrolled = EmptyTable
    /\ query = NoQuery
    /\ Idle

\* cleanup_old_images(days)
CleanupOldImages ==
    /\ \E days \in 0..2 :
        LET res == cleanup_old_images(detections_dir, days, now)
        IN  /\ detections_dir' = res.files
            /\ sweep' = [turn |-> ~sweep.turn, days |-> days,
                         error |-> res.error]
    /\ UNCHANGED <<log_file, csv_error, known_faces_dir, enrolled, query>>
    /\ UNCHANGED <<storeVars, stats>>
    /\ UNCHANGED <<notifierVars, procVars, loopVars, obsVars>>

NextSweep == Tick \/ CleanupOldImages

SpecSweep == InitSweep /\ [][NextSweep]_vars

\* ------------------------------------- a client of get_detection_stats
\* The log holds any lines when the statistics are asked for.
InitStats ==
    /\ now = StartTime
    /\ send_image = TRUE
    /\ channel_id = CHANNEL_SENTINEL
    /\ last_alert_time = EmptyTable
    /\ lastCall = NoCall
    /\ log_file \in Logs
    /\ detections_dir = <<>>
    /\ sweep = NoSweep
    /\ known_faces_dir = <<>>
    /\ enrolled = EmptyTable
    /\ query = NoQuery
    /\ Idle

\* get_detection_stats(hours)
GetDetectionStats ==
    /\ \E hours \in 0..2, readable \in BOOLEAN :
        stats' = [turn |-> ~stats.turn, hours |-> hours, t |-> now,
                  readable |-> readable,
                  result |-> get_detection_stats(log_file, hours, now,
                                                 readable)]
    /\ UNCHANGED <<log_file, csv_error, detections_dir, sweep,
                   known_faces_dir, enrolled, query, storeVars>>
    /\ UNCHANGED <<notifierVars, procVars, loopVars, obsVars>>

NextStats == Tick \/ GetDetectionStats

SpecStats == InitStats /\ [][NextStats]_vars

\* ------------------------------------------ a client of the image store
\* datetime.now() moves on between calls.
ClockAdvance ==
    /\ \E d \in ClockSteps :
        /\ wall_clock + d <= MaxClock
        /\ wall_clock' = wall_clock + d
    /\ UNCHANGED <<images, saved>>
    /\ UNCHANGED <<log_file, csv_error, detections_dir, sweep,
                   known_faces_dir, enrolled, query, stats>>
    /\ UNCHANGED <<notifierVars, procVars, loopVars, obsVars>>

\* The local wall clock is set back (a clock correction, or the end of
\* daylight saving time).
ClockSetBack ==
    /\ \E d \in ClockSteps :
        /\ wall_clock - d >= 0
        /\ wall_clock' = wall_clock - d
    /\ UNCHANGED <<images, saved>>
    /\ UNCHANGED <<log_file, csv_error, detections_dir, sweep,
                   known_faces_dir, enrolled, query, stats>>
    /\ UNCHANGED <<notifierVars, procVars, loopVars, obsVars>>

\* _save_detection_image(frame, confidence, person_name) for one more
\* detection; the call takes d microseconds.
SaveDetectionImage ==
    /\ saved < MaxSaves
    /\ \E person_name \in ClientNames, outcome \in WriteOutcomes,
          d \in ClockSteps :
        /\ wall_clock + d <= MaxClock
        /\ images' = _save_detection_image(images, person_name, wall_clock,
                                           saved + 1, outcome)
        /\ saved' = IF outcome = "written" THEN saved + 1 ELSE saved
        /\ wall_clock' = wall_clock + d
    /\ UNCHANGED <<log_file, csv_error, detections_dir, sweep,
                   known_faces_dir, enrolled, query, stats>>
    /\ UNCHANGED <<notifierVars, procVars, loopVars, obsVars>>

NextImages == ClockAdvance \/ ClockSetBack \/ SaveDetectionImage

SpecImages == Init /\ [][NextImages]_vars

\* ------------------------------------- a client of the face recognizer
\* FaceRecognizer.encode_and_save_face(image_path, person_name, known_faces)
Enroll ==
    /\ \E image \in Images, person_name \in KnownNames, lib \in BOOLEAN,
          pos \in 1..(Len(known_faces_dir) + 1) :
        LET res == encode_and_save_face(known_faces_dir, image, person_name,
                                        lib, pos)
        IN  /\ known_faces_dir' = res.dir
            /\ enrolled' = IF res.ok THEN TablePut(enrolled, person_name, image)
                           ELSE enrolled
    /\ UNCHANGED <<log_file, csv_error, detections_dir, sweep, query>>
    /\ UNCHANGED <<storeVars, stats>>
    /\ UNCHANGED <<notifierVars, procVars, loopVars, obsVars>>

\* FaceRecognizer(config.KNOWN_FACES_DIR): the encodings are read once.
LoadKnownFaces ==
    /\ \E lib \in BOOLEAN :
        face_recognizer' = FaceRecognizer(lib, known_faces_dir)
    /\ UNCHANGED <<pc, camera, running, cap, pending, exit_status>>
    /\ UNCHANGED <<notifierVars, loopVars, fileVars, obsVars>>

\* recognizer.recognize_face(crop, tolerance); the library may raise.
Recognize ==
    /\ face_recognizer.present
    /\ \E image \in Images, tolerance \in Tolerances, raises \in BOOLEAN :
        LET face == IF raises THEN Face("error", 0) ELSE FaceOf(image)
        IN  query' = [turn |-> ~query.turn, image |-> image,
                      face |-> face.kind, tolerance |-> tolerance,
                      result |-> recognize_face(face_recognizer, face,
                                                tolerance)]
    /\ UNCHANGED <<log_file, csv_error, detections_dir, sweep,
                   known_faces_dir, enrolled>>
    /\ UNCHANGED <<storeVars, stats>>
    /\ UNCHANGED <<notifierVars, procVars, loopVars, obsVars>>

NextRecognizer == Enroll \/ LoadKnownFaces \/ Recognize

SpecRecognizer == Init /\ [][NextRecognizer]_vars

\* =================================================================== main()
\* ------------------------------------------- SmartDoorCamera.__init__
\* validate_config(): a failure raises RuntimeError, caught by main().
Validate ==
    /\ pc = "main"
    /\ running' = FALSE
    /\ \E ok \in BOOLEAN :
        IF ok THEN pc' = "load_model" /\ pending' = pending
        ELSE pc' = "main_except" /\ pending' = "RuntimeError"
    /\ UNCHANGED <<camera, cap, face_recognizer, exit_status>>
    /\ UNCHANGED <<notifierVars, loopVars, fileVars, obsVars>>

LoadModel_continues ==
    /\ pc = "load_model"
    /\ \E ok \in BOOLEAN :
        IF ok THEN pc' = "load_face" /\ pending' = pending
        ELSE pc' = "load_face" /\ pending' = "RuntimeError"
    /\ UNCHANGED <<camera, running, cap, face_recognizer, exit_status>>
    /\ UNCHANGED <<notifierVars, loopVars, fileVars, obsVars>>

\* _load_model(): a failure raises RuntimeError, caught by main().
LoadModel ==
    /\ pc = "load_model"
    /\ \E ok \in BOOLEAN :
        IF ok THEN pc' = "load_face" /\ pending' = pending
        ELSE pc' = "main_except" /\ pending' = "RuntimeError"
    /\ UNCHANGED <<camera, running, cap, face_recognizer, exit_status>>
    /\ UNCHANGED <<notifierVars, loopVars, fileVars, obsVars>>

\* _load_face_recognizer(): no recognizer when recognition is disabled, the
\* module is not importable or the constructor raises; else a recognizer
\* with or without the library and with the encodings found on disk.
LoadFaceRecognizer ==
    /\ pc = "load_face"
    /\ \E enabled \in BOOLEAN, available \in BOOLEAN, raises \in BOOLEAN,
          lib \in BOOLEAN, dir \in KnownFacesDirs :
        face_recognizer' =
            IF ~enabled \/ ~available \/ raises THEN NoRecognizer
            ELSE FaceRecognizer(lib, dir)
    /\ pc' = "bind"
    /\ UNCHANGED <<camera, running, cap, pending, exit_status>>
    /\ UNCHANGED <<notifierVars, loopVars, fileVars, obsVars>>

\* camera = SmartDoorCamera() (line 323): the constructor has returned.
Bind ==
    /\ pc = "bind"
    /\ camera' = TRUE
    /\ pc' = "run"
    /\ UNCHANGED <<running, cap, face_recognizer, pending, exit_status>>
    /\ UNCHANGED <<notifierVars, loopVars, fileVars, obsVars>>

\* ------------------------------------------------ SmartDoorCamera.run
\* Line 99
RunEnter ==
    /\ pc = "run"
    /\ running' = TRUE
    /\ pc' = "startup"
    /\ UNCHANGED <<camera, cap, face_recognizer, pending, exit_status>>
    /\ UNCHANGED <<notifierVars, loopVars, fileVars, obsVars>>

\* Lines 103-106: send_startup_sync(), its failure only logged.
Startup ==
    /\ pc = "startup"
    /\ \E outcome \in Outcomes :
        LET res == send_startup_sync(outcome)
        IN  notices' = notices \cup (IF res.raised THEN {} ELSE {"startup"})
    /\ pc' = "open"
    /\ UNCHANGED <<camera, running, cap, face_recognizer, pending,
                   exit_status>>
    /\ UNCHANGED <<notifierVars, loopVars, fileVars>>
    /\ UNCHANGED <<cleanups, finally_cut, signalled, stop_requested,
                   read_released>>

OpenCamera_unchecked ==
    /\ pc = "open"
    /\ \E opened \in BOOLEAN :
        IF opened THEN cap' = "opened" /\ pc' = "configure"
        ELSE cap' = "closed" /\ pc' = "configure"
    /\ UNCHANGED <<camera, running, face_recognizer, pending, exit_status>>
    /\ UNCHANGED <<notifierVars, loopVars, fileVars, obsVars>>

\* Lines 109-114: cv2.VideoCapture(...) and isOpened().
OpenCamera ==
    /\ pc = "open"
    /\ \E opened \in BOOLEAN :
        IF opened THEN cap' = "opened" /\ pc' = "configure"
        ELSE cap' = "closed" /\ pc' = "open_failed"
    /\ UNCHANGED <<camera, running, face_recognizer, pending, exit_status>>
    /\ UNCHANGED <<notifierVars, loopVars, fileVars, obsVars>>

\* Lines 116-130: the camera properties are set and read back, before the
\* try of run() is entered.
Configure ==
    /\ pc = "configure"
    /\ pc' = "loop"
    /\ UNCHANGED <<camera, running, cap, face_recognizer, pending,
                   exit_status>>
    /\ UNCHANGED <<notifierVars, loopVars, fileVars, obsVars>>

\* Lines 111-114: the error notice, then run() returns without cleanup; an
\* exception leaving send_error_sync would reach the handler of main().
OpenFailed ==
    /\ pc = "open_failed"
    /\ \E outcome \in Outcomes :
        LET res == send_error_sync(outcome)
        IN  /\ notices' = notices \cup {"error:open"}
            /\ pc' = IF res.raised THEN "main_except" ELSE "main_finally"
            /\ pending' = IF res.raised THEN "Exception" ELSE pending
    /\ UNCHANGED <<camera, running, cap, face_recognizer, exit_status>>
    /\ UNCHANGED <<notifierVars, loopVars, fileVars>>
    /\ UNCHANGED <<cleanups, finally_cut, signalled, stop_requested,
                   read_released>>

LoopCheck_ignores_flag ==
    /\ pc = "loop"
    /\ pc' = "read"
    /\ UNCHANGED <<camera, running, cap, face_recognizer, pending,
                   exit_status>>
    /\ UNCHANGED <<notifierVars, loopVars, fileVars, obsVars>>

\* "while self.running" (line 133)
LoopCheck ==
    /\ pc = "loop"
    /\ pc' = IF running THEN "read" ELSE "run_finally"
    /\ UNCHANGED <<camera, running, cap, face_recognizer, pending,
                   exit_status>>
    /\ UNCHANGED <<notifierVars, loopVars, fileVars, obsVars>>

\* self.cap.read() (lines 134-135): no frame, a frame, or an exception,
\* which leaves the loop through "except Exception".
ReadFrame ==
    /\ pc = "read"
    /\ read_released' = (read_released \/ cap = "released")
    /\ \E outcome \in {"none", "frame", "raise"} :
        /\ outcome = "frame" => frames < MaxFrames
        /\ CASE outcome = "none" -> pc' = "read_failed" /\ frames' = frames
             [] outcome = "frame" -> pc' = "infer" /\ frames' = frames + 1
             [] OTHER -> pc' = "run_except" /\ frames' = frames
    /\ UNCHANGED <<camera, running, cap, face_recognizer, pending,
                   exit_status>>
    /\ UNCHANGED <<notifierVars, detections, cur, fileVars>>
    /\ UNCHANGED <<cleanups, finally_cut, signalled, stop_requested, notices>>

ReadFailed_leaves ==
    /\ pc = "read_failed"
    /\ pc' = "run_finally"
    /\ UNCHANGED <<camera, running, cap, face_recognizer, pending,
                   exit_status>>
    /\ UNCHANGED <<notifierVars, loopVars, fileVars, obsVars>>

\* "if not ret" (lines 136-138): the failure is logged, and after
\* time.sleep(0.1) "continue" goes back to the test of the loop.
ReadFailed ==
    /\ pc = "read_failed"
    /\ pc' = "loop"
    /\ UNCHANGED <<camera, running, cap, face_recognizer, pending,
                   exit_status>>
    /\ UNCHANGED <<notifierVars, loopVars, fileVars, obsVars>>

Infer_unwinds ==
    /\ pc = "infer"
    /\ \E ok \in BOOLEAN : pc' = IF ok THEN "box" ELSE "run_except"
    /\ UNCHANGED <<camera, running, cap, face_recognizer, pending,
                   exit_status>>
    /\ UNCHANGED <<notifierVars, loopVars, fileVars, obsVars>>

\* self.model(frame, ...) (lines 187-192); an exception is caught by the
\* "except Exception" of _process_frame and the frame is dropped.
Infer ==
    /\ pc = "infer"
    /\ \E ok \in BOOLEAN : pc' = IF ok THEN "box" ELSE "after_frame"
    /\ UNCHANGED <<camera, running, cap, face_recognizer, pending,
                   exit_status>>
    /\ UNCHANGED <<notifierVars, loopVars, fileVars, obsVars>>

\* "for box in result.boxes" (lines 195-231): the loop ends, or the next
\* box is filtered out, or it is retained, named and typed.
NextBox ==
    /\ pc = "box"
    /\ \/ /\ pc' = "after_frame"
          /\ UNCHANGED <<detections, cur>>
       \/ \E box \in Boxes :
              IF Reported(box) /\ Retained(box)
              THEN LET person_name == PersonName(face_recognizer, box.face)
                   IN  /\ detections < MaxDetections
                       /\ detections' = detections + 1
                       /\ cur' = [person_name |-> person_name,
                                  person_type |-> PersonType(person_name),
                                  confidence |-> box.conf,
                                  image_path |-> "", written |-> FALSE,
                                  cls |-> box.cls,
                                  xyxy |-> box.xyxy]
                       /\ pc' = "save"
              ELSE pc' = "box" /\ UNCHANGED <<detections, cur>>
    /\ UNCHANGED frames
    /\ UNCHANGED <<camera, running, cap, face_recognizer, pending,
                   exit_status>>
    /\ UNCHANGED <<notifierVars, fileVars, obsVars>>

\* _save_detection_image (line 234): the path, or "" when it raised.
SaveImage ==
    /\ pc = "save"
    /\ \E outcome \in WriteOutcomes :
        cur' = [cur EXCEPT !.image_path = SavedPath(outcome),
                           !.written = (outcome = "written")]
    /\ pc' = "alert"
    /\ UNCHANGED <<frames, detections>>
    /\ UNCHANGED <<camera, running, cap, face_recognizer, pending,
                   exit_status>>
    /\ UNCHANGED <<notifierVars, fileVars, obsVars>>

\* Lines 237-245: send_detection_sync(...), which takes d seconds; whatever
\* it raises is logged. Its notifier is dropped when it returns.
\* The image file is there at dispatch time if it was written.
Alert ==
    /\ pc = "alert"
    /\ \E photo_exists \in {cur.written}, d \in 0..1 :
        /\ now + d <= MaxTime
        /\ \E net \in NetsFor(UsedSlots(EmptyTable, cur.image_path,
                                        cur.person_name, now, photo_exists)) :
            /\ Canonical(net, UsedSlots(EmptyTable, cur.image_path,
                                        cur.person_name, now, photo_exists))
            /\ LET res == send_detection_sync(cur.person_type,
                             cur.image_path, cur.person_name, now, now + d,
                             photo_exists, net)
               IN  lastCall' = CallRecord("sync", now,
                                    TableGet(EmptyTable, cur.person_name),
                                    cur.person_type, cur.image_path,
                                    cur.person_name, photo_exists, res)
        /\ now' = now + d
    /\ pc' = "log"
    /\ UNCHANGED <<send_image, channel_id, last_alert_time>>
    /\ UNCHANGED <<camera, running, cap, face_recognizer, pending,
                   exit_status>>
    /\ UNCHANGED <<loopVars, fileVars, obsVars>>

\* Lines 248-253: save_detection_csv(...), which logs a write error
\* instead of raising it.
Log ==
    /\ pc = "log"
    /\ \E outcome \in CsvOutcomes :
        /\ csv_error' = (outcome # "ok")
        /\ log_file' = IF outcome = "ok"
                       THEN save_detection_csv(log_file, now, cur.person_type,
                                cur.person_name, cur.confidence)
                       ELSE save_detection_csv_failed(log_file, outcome)
    /\ pc' = "box"
    /\ UNCHANGED <<detections_dir, sweep, known_faces_dir, enrolled, query>>
    /\ UNCHANGED <<storeVars, stats>>
    /\ UNCHANGED <<camera, running, cap, face_recognizer, pending,
                   exit_status>>
    /\ UNCHANGED <<notifierVars, loopVars, obsVars>>

\* Lines 145-160: DISPLAY_FRAMES is False, and the FPS log and the image
\* sweep come every 100th and 1000th frame only.
AfterFrame ==
    /\ pc = "after_frame"
    /\ pc' = "loop"
    /\ UNCHANGED <<camera, running, cap, face_recognizer, pending,
                   exit_status>>
    /\ UNCHANGED <<notifierVars, loopVars, fileVars, obsVars>>

\* Lines 164-167: "except Exception" of run(): the error notice; an
\* exception leaving send_error_sync would travel on through the finally.
RunExcept ==
    /\ pc = "run_except"
    /\ \E outcome \in Outcomes :
        LET res == send_error_sync(outcome)
        IN  /\ notices' = notices \cup {"error:loop"}
            /\ pending' = IF res.raised THEN "Exception" ELSE pending
    /\ pc' = "run_finally"
    /\ UNCHANGED <<camera, running, cap, face_recognizer, exit_status>>
    /\ UNCHANGED <<notifierVars, loopVars, fileVars>>
    /\ UNCHANGED <<cleanups, finally_cut, signalled, stop_requested,
                   read_released>>

\* --------------------------------------------- SmartDoorCamera._cleanup
\* Lines 173-174, entered from the finally of run() or of main().
CleanupEnter ==
    /\ \/ pc = "run_finally" /\ pc' = "run_release"
       \/ pc = "main_finally" /\ camera /\ pc' = "main_release"
    /\ cleanups' = cleanups + 1
    /\ running' = FALSE
    /\ UNCHANGED <<camera, cap, face_recognizer, pending, exit_status>>
    /\ UNCHANGED <<notifierVars, loopVars, fileVars>>
    /\ UNCHANGED <<finally_cut, signalled, stop_requested, read_released,
                   notices>>

Release_keeps(c) == c

Release_reopens(c) == IF c = "opened" THEN "released" ELSE "opened"

\* "if self.cap: self.cap.release()" (lines 176-178): an opened device is
\* released; a capture that never opened stays closed.
Release(c) == IF c = "opened" THEN "released" ELSE c

\* The rest of _cleanup; then run() returns to main(), or main() ends and
\* the process exits with status 0 (a return, or sys.exit(0)).
CleanupRelease ==
    /\ \/ /\ pc = "run_release"
          /\ pc' = IF pending = "Exception" THEN "main_except"
                   ELSE "main_finally"
          /\ UNCHANGED exit_status
       \/ /\ pc = "main_release"
          /\ pc' = "exit"
          /\ exit_status' = 0
    /\ cap' = Release(cap)
    /\ UNCHANGED <<camera, running, face_recognizer, pending>>
    /\ UNCHANGED <<notifierVars, loopVars, fileVars, obsVars>>

\* ------------------------------------------------------------- main()
\* Lines 328-333: "except Exception": the fatal error notice.
MainExcept ==
    /\ pc = "main_except"
    /\ notices' = notices \cup {"error:fatal"}
    /\ pending' = "none"
    /\ pc' = "main_finally"
    /\ UNCHANGED <<camera, running, cap, face_recognizer, exit_status>>
    /\ UNCHANGED <<notifierVars, loopVars, fileVars>>
    /\ UNCHANGED <<cleanups, finally_cut, signalled, stop_requested,
                   read_released>>

\* Lines 334-337 when no camera was bound: nothing to clean up.
MainFinallyNoCamera ==
    /\ pc = "main_finally"
    /\ ~camera
    /\ pc' = "exit"
    /\ exit_status' = 0
    /\ UNCHANGED <<camera, running, cap, face_recognizer, pending>>
    /\ UNCHANGED <<notifierVars, loopVars, fileVars, obsVars>>

\* --------------------------------------------------- the environment
\* Where sys.exit(0), raised by signal_handler, takes the process:
\*   inside the try of run(): to its finally, which calls _cleanup;
\*   inside that _cleanup, or in main() outside the handler: to the
\*     finally of main() (SystemExit is no Exception);
\*   inside the try of the handler of main(), whose "except:" is bare: it is
\*     swallowed;
\*   inside the finally of main(): out of the process.
InRunTry ==
    pc \in {"loop", "read", "read_failed", "infer", "box", "save", "alert",
            "log", "after_frame", "run_except"}

SignalTarget_exit == "exit"

SignalTarget ==
    CASE InRunTry -> "run_finally"
      [] pc \in {"main_finally", "main_release"} -> "exit"
      [] OTHER -> "main_finally"

\* SIGINT or SIGTERM: signal_handler (lines 308-311).
Signal ==
    /\ pc # "exit"
    /\ signalled' = TRUE
    /\ pc' = SignalTarget
    /\ pending' = IF pc = "main_except" THEN "none" ELSE "SystemExit"
    /\ finally_cut' = (finally_cut \/ pc \in {"main_finally", "main_release"})
    /\ exit_status' = IF SignalTarget = "exit" THEN 0 ELSE exit_status
    /\ UNCHANGED <<camera, running, cap, face_recognizer>>
    /\ UNCHANGED <<notifierVars, loopVars, fileVars>>
    /\ UNCHANGED <<cleanups, stop_requested, read_released, notices>>

Stop_releases ==
    /\ camera
    /\ pc # "exit"
    /\ stop_requested' = TRUE
    /\ running' = FALSE
    /\ cap' = Release(cap)
    /\ UNCHANGED <<pc, camera, face_recognizer, pending, exit_status>>
    /\ UNCHANGED <<notifierVars, loopVars, fileVars>>
    /\ UNCHANGED <<cleanups, finally_cut, signalled, read_released, notices>>

\* SmartDoorCamera.stop(), called by a holder of the object.
Stop ==
    /\ camera
    /\ pc # "exit"
    /\ stop_requested' = TRUE
    /\ running' = FALSE
    /\ UNCHANGED <<pc, camera, cap, face_recognizer, pending, exit_status>>
    /\ UNCHANGED <<notifierVars, loopVars, fileVars>>
    /\ UNCHANGED <<cleanups, finally_cut, signalled, read_released, notices>>

Next ==
    \/ Validate \/ LoadModel \/ LoadFaceRecognizer \/ Bind
    \/ RunEnter \/ Startup \/ OpenCamera \/ Configure \/ OpenFailed
    \/ LoopCheck \/ ReadFrame \/ ReadFailed \/ Infer \/ NextBox \/ SaveImage \/ Alert
    \/ Log \/ AfterFrame \/ RunExcept
    \/ CleanupEnter \/ CleanupRelease \/ MainExcept \/ MainFinallyNoCamera
    \/ Signal \/ Stop

Spec == Init /\ [][Next]_vars

\* The statements of main() that end a failed construction are executed
\* once they are reached.
FairSpec == Spec /\ WF_vars(MainExcept) /\ WF_vars(MainFinallyNoCamera)

\* The statements of the frame loop and of the cleanup after it are
\* executed once they are reached, and the pending cap.read() returns.
FairLoop ==
    /\ WF_vars(LoopCheck) /\ WF_vars(ReadFrame) /\ WF_vars(ReadFailed)
    /\ WF_vars(Infer) /\ WF_vars(NextBox) /\ WF_vars(SaveImage)
    /\ WF_vars(Alert) /\ WF_vars(Log) /\ WF_vars(AfterFrame)
    /\ WF_vars(RunExcept) /\ WF_vars(CleanupEnter) /\ WF_vars(CleanupRelease)

FairLoopSpec == Spec /\ FairLoop

\* ==================================================================== claims
\* A step that is a call of send_detection_alert.
CallStep == lastCall'.turn # lastCall.turn

\* A transport call of the attempts went through.
Delivered(call) ==
    \E i \in DOMAIN call.attempts : call.attempts[i].outcome = "ok"

IsRow(line) == line.kind = "row"
Rows(file) == SelectSeq(file.lines, IsRow)

\* C1 (as claimed): in the running pipeline, when an alert for identity i was
\* delivered at t1, a second alert for i requested through
\* send_detection_sync at t2, t1 < t2 < t1 + MIN_DETECTION_INTERVAL, sends
\* nothing: no text and no photo.
C1_SecondAlertSuppressed ==
    [][(/\ CallStep
        /\ lastCall.via = "sync" /\ lastCall'.via = "sync"
        /\ Delivered(lastCall)
        /\ lastCall'.person_name = lastCall.person_name
        /\ lastCall.t < lastCall'.t
        /\ lastCall'.t - lastCall.t < MIN_DETECTION_INTERVAL)
       => lastCall'.attempts = <<>>]_vars

\* C2: an alert for an identity that has an entry t1 in last_alert_time,
\* requested at t2 >= t1 + MIN_DETECTION_INTERVAL (the boundary included),
\* passes the rate-limit check and starts its send to the user.
C2_NotSuppressedFromInterval ==
    (/\ lastCall.via = "direct"
     /\ lastCall.entry > 0
     /\ lastCall.t - lastCall.entry >= MIN_DETECTION_INTERVAL)
    => (~lastCall.suppressed /\ lastCall.send \in {"photo", "text"})

C2_Witness ==
    /\ lastCall.via = "direct"
    /\ lastCall.entry > 0
    /\ lastCall.t - lastCall.entry = MIN_DETECTION_INTERVAL
    /\ ~lastCall.suppressed
    /\ lastCall.attempts # <<>>

\* C3: a call of send_detection_alert that the rate-limit check suppresses
\* leaves last_alert_time as it was, for every identity, and makes no
\* transport call to any destination.
C3_SuppressedChangesNothing ==
    [][(CallStep /\ lastCall'.suppressed)
       => (last_alert_time' = last_alert_time /\ lastCall'.attempts = <<>>)]_vars

C3_Witness ==
    /\ lastCall.via = "direct"
    /\ lastCall.suppressed
    /\ lastCall.person_name \in DOMAIN last_alert_time
    /\ lastCall.t - last_alert_time[lastCall.person_name]
          < MIN_DETECTION_INTERVAL

Classified(person_type, person_name) ==
    /\ person_type = "ALLOWED" <=> person_name \in KnownNames
    /\ person_type = "INTRUDER" <=> person_name \notin KnownNames

C5_ClassificationMatchesIdentity ==
    /\ lastCall.via = "sync"
          => Classified(lastCall.person_type, lastCall.person_name)
    /\ \A i \in DOMAIN Rows(log_file) :
          Classified(Rows(log_file)[i].person_type,
                     Rows(log_file)[i].person_name)

\* C6 (as claimed): with no recognizer, no face library or no known
\* encodings, startup succeeds and every detection logged is "INTRUDER".
ClassifierUnavailable ==
    \/ ~face_recognizer.present
    \/ ~face_recognizer.lib
    \/ face_recognizer.known_faces = <<>>

C6_UnavailableClassifierLogsIntruder ==
    (pc \notin {"main", "load_model", "load_face"} /\ ClassifierUnavailable)
    => /\ pc = "bind" => pending = "none"
       /\ \A i \in DOMAIN Rows(log_file) :
             Rows(log_file)[i].person_type = "INTRUDER"

\* C7 (as claimed): the logging step of every retained detection appends
\* exactly one row, whatever became of its alert; rows stay in processing
\* order and no other step changes the rows.
LogStep == pc = "log" /\ pc' = "box"

RowOf(detection, timestamp) ==
    Row(timestamp, detection.person_type, detection.person_name,
        detection.confidence)

C7_OneRowPerDetection ==
    [][IF LogStep
       THEN Rows(log_file') = Append(Rows(log_file), RowOf(cur, now))
       ELSE Rows(log_file') = Rows(log_file)]_vars

\* C7 (amended): the logging step of every retained detection appends
\* exactly one row at the end of the log, whatever became of its alert,
\* unless writing the file fails, in which case the error is logged and no
\* row is added; no step changes or removes an existing row.
C7_OneRowUnlessWriteFails ==
    [][IF LogStep
       THEN IF csv_error'
            THEN Rows(log_file') = Rows(log_file)
            ELSE Rows(log_file') = Append(Rows(log_file), RowOf(cur, now))
       ELSE log_file' = log_file]_vars

C7_Witness ==
    /\ pc = "box"
    /\ ~csv_error
    /\ lastCall.via = "sync"
    /\ lastCall.caught # "none"
    /\ Len(Rows(log_file)) = 2
    /\ Rows(log_file)[2] = RowOf(cur, now)

\* C8: whatever the transport does, the call of send_detection_sync made by
\* _process_frame raises nothing, repeats no transport call (a failed text
\* send is the only call made), and leaves the controller running at the
\* logging step of the same detection.
NoRepeat(attempts) ==
    \A i, j \in DOMAIN attempts :
        (attempts[i].dest = attempts[j].dest
            /\ attempts[i].kind = attempts[j].kind) => i = j

C8_AlertNeverStopsPipeline ==
    [][(CallStep /\ lastCall'.via = "sync")
       => (/\ ~lastCall'.raised
           /\ NoRepeat(lastCall'.attempts)
           /\ (lastCall'.caught # "none" => Len(lastCall'.attempts) = 1)
           /\ pc = "alert" /\ pc' = "log"
           /\ running' = running /\ cap' = cap
           /\ cur' = cur /\ log_file' = log_file)]_vars

C8_Witness ==
    /\ pc = "log"
    /\ running
    /\ lastCall.via = "sync"
    /\ lastCall.caught = "Exception"

\* C9 (as claimed): with an image path and attachment enabled, when the
\* image file is missing or the photo send fails, the caption is sent to
\* the user as text; nothing is raised.
PhotoFailed(call) ==
    \E i \in DOMAIN call.attempts :
        /\ call.attempts[i].dest = "user"
        /\ call.attempts[i].kind = "photo"
        /\ call.attempts[i].outcome # "ok"

TextTried(call) ==
    \E i \in DOMAIN call.attempts :
        call.attempts[i].dest = "user" /\ call.attempts[i].kind = "text"

C9_FallbackToText ==
    (/\ lastCall.via = "sync"
     /\ lastCall.send = "photo"
     /\ (~lastCall.photo_exists \/ PhotoFailed(lastCall)))
    => (TextTried(lastCall) /\ ~lastCall.raised)

\* C10 (as claimed): when a termination signal arrived, _cleanup has run
\* exactly once when the process exits.
C10_CleanupExactlyOnce ==
    (pc = "exit" /\ signalled) => cleanups = 1

\* C10 (amended): when a termination signal arrived after main() bound the
\* controller and no signal broke into the finally of main(), _cleanup has
\* run once or twice when the process exits (twice when the finally of
\* run() ran it first), running is false and the device, if any, is
\* released; a signal before the controller is bound exits with no cleanup.
\* _cleanup never runs more than twice.
C10_CleanupOnceOrTwice ==
    (pc = "exit" /\ signalled)
    => /\ cleanups \in 0..2
       /\ (camera /\ ~finally_cut)
             => (cleanups \in 1..2 /\ ~running /\ cap # "opened")
       /\ ~camera => (cleanups = 0 /\ cap = "None")

C10_Witness ==
    /\ pc = "exit"
    /\ signalled
    /\ ~finally_cut
    /\ cleanups = 2
    /\ cap = "released"

\* C11 (as claimed): when the process has exited after run() opened the
\* device, running is false and the device has been released, however the
\* loop ended.
DeviceWasOpened == cap \in {"opened", "released"}

C11_AlwaysStopped ==
    (pc = "exit" /\ DeviceWasOpened) => (~running /\ cap = "released")

\* C11 (amended): when the process has exited after run() opened the
\* device, and no termination signal arrived while the finally of main()
\* was running, _cleanup has run, running is false and the device has been
\* released, whether the loop ended by stop(), an exception or a signal.
C11_StoppedUnlessFinallyCut ==
    (pc = "exit" /\ DeviceWasOpened /\ ~finally_cut)
    => (cleanups >= 1 /\ ~running /\ cap = "released")

C11_Witness ==
    /\ pc = "exit"
    /\ ~finally_cut
    /\ ~signalled
    /\ "error:loop" \in notices
    /\ cap = "released"
    /\ ~running

\* C12: when opening the device failed, run() returns without entering the
\* frame loop: no frame is read, no detection is processed, alerted or
\* logged, and the error notice is attempted before run() returns (unless a
\* termination signal ended run() first).
InFrameLoop ==
    pc \in {"configure", "loop", "read", "read_failed", "infer", "box",
            "save", "alert", "log", "after_frame", "run_except",
            "run_finally", "run_release"}

C12_OpenFailureSkipsLoop ==
    cap = "closed"
    => /\ ~InFrameLoop
       /\ frames = 0 /\ detections = 0 /\ cur = NoDetection
       /\ lastCall = NoCall /\ log_file = NoFile
       /\ ~read_released
       /\ (pc # "open_failed" /\ ~signalled) => "error:open" \in notices

C12_Witness ==
    /\ pc = "exit"
    /\ cap = "closed"
    /\ ~signalled
    /\ "error:open" \in notices

\* C13 (as claimed): when the detector failed to load or the device failed
\* to open, the process exits with a non-zero status.
FatalCase == "error:fatal" \in notices \/ "error:open" \in notices

C13_FatalExitsNonZero ==
    (pc = "exit" /\ FatalCase) => exit_status # 0

\* C14: when validate_config or _load_model fails in the constructor, the
\* controller is never bound and run() never starts: the device is never
\* opened, no frame is read, nothing is cleaned up, and the process, whose
\* steps are taken in turn, goes on to exit.
InitFailed == pending = "RuntimeError"

NeverBound ==
    ~camera
    => /\ pc \in {"main", "load_model", "load_face", "bind", "main_except",
                  "main_finally", "exit"}
       /\ cap = "None" /\ ~running
       /\ frames = 0 /\ detections = 0 /\ ~read_released
       /\ cleanups = 0 /\ "startup" \notin notices

C14_InitFailureNeverRuns ==
    /\ [](InitFailed => (~camera /\ pc = "main_except"))
    /\ []("error:fatal" \in notices => ~camera)
    /\ []NeverBound
    /\ (InitFailed ~> pc = "exit")

C14_Witness ==
    /\ pc = "exit"
    /\ ~camera
    /\ ~signalled
    /\ "error:fatal" \in notices

\* C15: a cap.read() that grabs no frame changes nothing: the controller
\* keeps running with the device open and no detection, image, alert, log
\* row or notice comes of that iteration; unless a signal ends the loop,
\* the iteration goes back to the test of the loop, which, as long as
\* running is true, leads to the next read.
FailedRead == pc = "read_failed"

NothingProcessed ==
    /\ running' = running /\ cap' = cap
    /\ frames' = frames /\ detections' = detections
    /\ cur' = cur /\ lastCall' = lastCall
    /\ log_file' = log_file /\ notices' = notices
    /\ cleanups' = cleanups

C15_FailedReadIsTransient ==
    /\ [](FailedRead => cap = "opened")
    /\ [][(pc = "read" /\ FailedRead') => NothingProcessed]_vars
    /\ [][(FailedRead /\ pc' # pc /\ pending' = pending)
           => (pc' = "loop" /\ NothingProcessed)]_vars
    /\ [][(pc = "loop" /\ running /\ pc' # pc /\ pending' = pending)
           => pc' = "read"]_vars

C15_Witness ==
    /\ FailedRead
    /\ frames = 1
    /\ running
    /\ cap = "opened"
    /\ ~signalled

\* C16 (as claimed): starting from no log file, after N calls of
\* save_detection_csv the file is one header followed by N rows.
HeaderThenRows(file, n) ==
    /\ Len(file.lines) = n + 1
    /\ file.lines[1] = Header
    /\ Len(Rows(file)) = n

C16_OneHeaderNRows ==
    detections > 0 => HeaderThenRows(log_file, detections)

\* C16 (amended): starting from no log file, a call of save_detection_csv
\* that writes without error appends its row at the end, after a header iff
\* the file did not exist before the call; a call whose writing fails is
\* only logged and adds no row. So when each of the N calls wrote its row
\* the file is one header followed by the N rows in call order; a header
\* is never anywhere but on the first line.
LogCall == detections' = detections + 1

Headers(file) == {i \in DOMAIN file.lines : file.lines[i] = Header}

C16_HeaderOnceRowsInOrder ==
    /\ [](Headers(log_file) \subseteq {1})
    /\ [](Len(Rows(log_file)) = detections
            => (detections > 0 => HeaderThenRows(log_file, detections)))
    /\ [][LogCall
           => IF csv_error'
              THEN Rows(log_file') = Rows(log_file)
              ELSE /\ Rows(log_file') = Append(Rows(log_file), RowOf(cur', now))
                   /\ log_file'.lines =
                         (IF log_file.exists THEN log_file.lines
                          ELSE <<Header>>) \o <<RowOf(cur', now)>>]_vars

C16_Witness ==
    /\ detections = MaxCalls
    /\ HeaderThenRows(log_file, MaxCalls)
    /\ Rows(log_file)[1].timestamp < Rows(log_file)[MaxCalls].timestamp
    /\ Rows(log_file)[1].person_name # Rows(log_file)[2].person_name

\* C17 (as claimed): cleanup_old_images(days) leaves exactly the files that
\* are not detection images with st_mtime < now - days.
SweepStep == sweep'.turn # sweep.turn

Surviving(files, cutoff) ==
    LET Kept(file) == ~(file.kind = "image" /\ file.mtime < cutoff)
    IN  SelectSeq(files, Kept)

OldLocked(file, cutoff) ==
    file.kind = "image" /\ file.mtime < cutoff /\ file.locked

RecognizeStep == query'.turn # query.turn

FirstNearest(known_faces, e) ==
    CHOOSE i \in DOMAIN known_faces :
        /\ \A j \in DOMAIN known_faces :
              Abs(e - known_faces[i].enc) <= Abs(e - known_faces[j].enc)
        /\ \A j \in 1..(i - 1) :
              Abs(e - known_faces[j].enc) > Abs(e - known_faces[i].enc)

Nearest(fr, image, face, tolerance) ==
    IF face = "face" /\ fr.lib /\ fr.known_faces # <<>>
    THEN LET i == FirstNearest(fr.known_faces, image[1])
         IN  IF Abs(image[1] - fr.known_faces[i].enc) < tolerance
             THEN fr.known_faces[i].name
             ELSE UNKNOWN_RECOGNIZER
    ELSE UNKNOWN_RECOGNIZER

C18_NearestBelowTolerance ==
    [][RecognizeStep
       => query'.result = Nearest(face_recognizer, query'.image, query'.face,
                                  query'.tolerance)]_vars

C18_Witness ==
    /\ query.turn
    /\ query.face = "face"
    /\ query.image = <<7>>
    /\ query.tolerance = FACE_RECOGNITION_THRESHOLD
    /\ face_recognizer.known_faces = <<Enc("bob", 12), Enc("alice", 2)>>
    /\ query.result = "bob"

\* C19 (as claimed): when "alice" was enrolled from an image and the
\* recognizer has loaded known_faces/ since, a crop of the same image is
\* recognized as "alice" for every tolerance above 0.
Loaded ==
    /\ face_recognizer.present /\ face_recognizer.lib
    /\ face_recognizer.known_faces = known_faces_dir

SameImageQuery ==
    /\ RecognizeStep
    /\ Loaded
    /\ "alice" \in DOMAIN enrolled
    /\ query'.image = enrolled["alice"]
    /\ query'.face = "face"
    /\ query'.tolerance > 0

C19_RoundTrip ==
    [][SameImageQuery => query'.result = "alice"]_vars

\* C19 (amended): under the same conditions the crop is recognized as
\* "alice" provided no label that comes before "alice" in known_faces has
\* the very same encoding; when one does, the first such label is returned.
C19_RoundTripUnlessDuplicate ==
    [][SameImageQuery
       => \E i \in DOMAIN known_faces_dir :
            /\ known_faces_dir[i].enc = enrolled["alice"][1]
            /\ \A j \in 1..(i - 1) :
                  known_faces_dir[j].enc # enrolled["alice"][1]
            /\ query'.result = known_faces_dir[i].name]_vars

C19_Witness ==
    /\ query.turn
    /\ Loaded
    /\ "alice" \in DOMAIN enrolled
    /\ query.image = enrolled["alice"]
    /\ query.image = <<2, 7>>
    /\ query.tolerance = 1
    /\ known_faces_dir = <<Enc("bob", 7), Enc("alice", 2)>>
    /\ query.result = "alice"

\* C20: a detection the pipeline retains is a box the detector reported at
\* or above the confidence threshold, of class person, with x1 < x2 and
\* y1 < y2, whose crop is a non-empty region inside the frame; images,
\* alerts and log rows come of retained detections only, one at most each
\* per detection: any other box changes nothing.
RetainedDetection(d) ==
    /\ d.cls = PERSON_CLASS
    /\ d.confidence >= CONFIDENCE_THRESHOLD
    /\ d.xyxy[1] < d.xyxy[3] /\ d.xyxy[2] < d.xyxy[4]
    /\ 0 <= Crop(d.xyxy).top /\ Crop(d.xyxy).top < Crop(d.xyxy).bottom
    /\ Crop(d.xyxy).bottom <= FrameH
    /\ 0 <= Crop(d.xyxy).left /\ Crop(d.xyxy).left < Crop(d.xyxy).right
    /\ Crop(d.xyxy).right <= FrameW

C20_OnlyValidPersonBoxes ==
    /\ [](cur # NoDetection => RetainedDetection(cur))
    /\ [](Len(Rows(log_file)) <= detections)
    /\ [][cur' # cur
           => \/ pc = "box" /\ pc' = "save" /\ detections' = detections + 1
              \/ pc = "save" /\ pc' = "alert" /\ detections' = detections]_vars
    /\ [][CallStep
           => (/\ pc = "alert" /\ RetainedDetection(cur)
               /\ lastCall'.person_name = cur.person_name
               /\ lastCall'.image_path = cur.image_path)]_vars
    /\ [][log_file' # log_file
           => (pc = "log" /\ RetainedDetection(cur))]_vars

C20_Witness ==
    /\ pc = "box"
    /\ cur.xyxy = <<-1, 1, 2, 6>>
    /\ Crop(cur.xyxy) = [top |-> 1, bottom |-> FrameH, left |-> 0, right |-> 2]
    /\ cur.image_path = "img"
    /\ Len(Rows(log_file)) = 1
    /\ detections = 1

\* C21 (as claimed): on a notifier whose channel is configured and is not
\* the sentinel, an alert that was sent to the user is sent to the channel
\* too, in the same form; with no channel or the sentinel nothing is sent
\* to the channel.
SentTo(call, dest, kind) ==
    \E i \in DOMAIN call.attempts :
        call.attempts[i].dest = dest /\ call.attempts[i].kind = kind

FirstKind(call, dest) ==
    LET first == CHOOSE i \in DOMAIN call.attempts :
                    /\ call.attempts[i].dest = dest
                    /\ \A j \in 1..(i - 1) : call.attempts[j].dest # dest
    IN  call.attempts[first].kind

C21_ChannelGetsSameAlert ==
    (/\ lastCall.via = "direct"
     /\ ~lastCall.suppressed
     /\ lastCall.caught = "none"
     /\ \E k \in {"photo", "text"} : SentTo(lastCall, "user", k))
    => IF ChannelConfigured
       THEN /\ \E k \in {"photo", "text"} : SentTo(lastCall, "chan", k)
            /\ FirstKind(lastCall, "chan") = FirstKind(lastCall, "user")
       ELSE \A k \in {"photo", "text"} : ~SentTo(lastCall, "chan", k)

\* C22: the startup notice and the error notice bypass rate limiting: a
\* notice leaves last_alert_time as it was, makes its one transport call
\* whatever alerts were sent before, and no failure of that call leaves
\* the method (so the caller goes on).
NoticeStep == CallStep /\ lastCall'.via \in {"startup", "error"}

C22_NoticesBypassRateLimit ==
    [][NoticeStep =>
          /\ last_alert_time' = last_alert_time
          /\ Len(lastCall'.attempts) = 1
          /\ lastCall'.attempts[1].dest = "user"
          /\ ~lastCall'.raised]_vars

\* An error notice that failed, sent within the interval after an alert of
\* the same notifier.
C22_Witness ==
    /\ lastCall.via = "error"
    /\ Len(lastCall.attempts) = 1
    /\ lastCall.attempts[1].outcome # "ok"
    /\ ~lastCall.raised
    /\ \E n \in ClientNames :
        /\ TableGet(last_alert_time, n) > 0
        /\ lastCall.t - TableGet(last_alert_time, n) < MIN_DETECTION_INTERVAL

\* C23 (as claimed): when the image of a detection could not be written,
\* _save_detection_image has returned "" and the detection goes on without
\* an image: its alert is sent as text and it is logged.
WriteFailed == pc \in {"alert", "log"} /\ ~cur.written

C23_WriteFailureGivesTextAlert ==
    /\ WriteFailed => cur.image_path = ""
    /\ (WriteFailed /\ pc = "log")
          => /\ lastCall.send = "text"
             /\ SentTo(lastCall, "user", "text")

\* C24 (as claimed): stored image names do not collide: every detection
\* whose image _save_detection_image has written still has its own file, so
\* no stored image was overwritten by a later detection.
C24_NoNameCollision == Cardinality(images) = saved

\* C25 (as claimed): get_detection_stats(hours) never modifies the log and
\* aggregates exactly the rows whose timestamp parses and lies within the
\* trailing window: total_detections = allowed_count + intruder_count =
\* number of such rows, and the rows whose timestamp does not parse are
\* skipped and counted as parse errors in the result.
InWindow(row, call) ==
    /\ IsRow(row)
    /\ Parses(row.timestamp)
    /\ row.timestamp >= call.t - call.hours * HOUR

Unparsable(row) == IsRow(row) /\ ~Parses(row.timestamp)

Count(file, Test(_)) == Cardinality({i \in DOMAIN file.lines : Test(file.lines[i])})

AggregateKeys ==
    {"total_detections", "allowed_count", "intruder_count", "unique_persons",
     "average_confidence"}

C25_StatsAggregateWindow ==
    /\ [][log_file' = log_file]_vars
    /\ []((stats.turn /\ stats.readable) =>
            LET InCall(row) == InWindow(row, stats)
                result == stats.result
            IN  /\ result.total_detections = Count(log_file, InCall)
                /\ result.total_detections
                      = result.allowed_count + result.intruder_count
                /\ \E k \in (DOMAIN result) \ AggregateKeys :
                      result[k] = Count(log_file, Unparsable))

\* C26: _cleanup is idempotent: a second invocation (by main() after run()
\* has cleaned up) sets running to False again, leaves a released device
\* released, and raises nothing: main() ends with status 0.
SecondCleanupEnter == cleanups >= 1 /\ cleanups' = cleanups + 1

SecondCleanupDone ==
    pc = "main_release" /\ pc' = "exit" /\ ~finally_cut' /\ cleanups >= 2

C26_CleanupIdempotent ==
    /\ [][SecondCleanupEnter =>
            (running' = FALSE /\ cap' = cap /\ pending' = pending)]_vars
    /\ [][SecondCleanupDone =>
            /\ running' = FALSE
            /\ cap # "opened" => cap' = cap
            /\ cap' # "opened"
            /\ pending' = pending
            /\ exit_status' = 0]_vars

\* main() has cleaned up a second time after the cleanup of run() had
\* released the device, and no signal came.
C26_Witness ==
    /\ pc = "exit"
    /\ cleanups = 2
    /\ ~signalled
    /\ ~running
    /\ cap = "released"

\* C27 (as claimed): after stop() is called while the loop is running, the
\* loop finishes at most the iteration in progress, reads no further frame
\* and, the pending read returning, reaches cleanup and the device is
\* released.
StoppedInLoop == InRunTry /\ ~running

NoFurtherRead ==
    [][(StoppedInLoop /\ pc # "read") => pc' # "read"]_vars

InProcessFrame == pc \in {"infer", "box", "save", "alert", "log"}

SignalStep == signalled' /\ ~signalled

FailureStep ==
    \/ pc = "infer" /\ pc' \notin {"infer", "box"}
    \/ pc = "save" /\ pc' = "alert" /\ cur'.image_path = ""
    \/ pc = "alert" /\ CallStep /\ ~Delivered(lastCall')
    \/ pc = "log" /\ pc' # "log" /\ csv_error'

C28_FrameFailureStaysInLoop ==
    /\ [][(FailureStep /\ ~SignalStep) =>
            /\ pc' \in {"box", "alert", "log", "after_frame"}
            /\ running' = running
            /\ cap' = cap
            /\ pending' = pending
            /\ cleanups' = cleanups]_vars
    /\ [][(InProcessFrame /\ ~SignalStep) =>
            (pc' \in {"infer", "box", "save", "alert", "log", "after_frame"})]_vars
    /\ [][(pc = "after_frame" /\ ~SignalStep) => pc' \in {"after_frame", "loop"}]_vars
    /\ [][(pc = "loop" /\ running /\ ~SignalStep) => pc' \in {"loop", "read"}]_vars

\* The log could not be written for a detection, and the loop is pulling
\* the next frame.
C28_Witness ==
    /\ pc = "read"
    /\ csv_error
    /\ frames >= 1
    /\ running
    /\ cap = "opened"
    /\ cleanups = 0

\* C29: on one TelegramNotifier, after an alert for identity i was sent at
\* t1, every send_detection_alert for i at t2 with
\* t2 - t1 < MIN_DETECTION_INTERVAL returns without calling the transport:
\* the alert that was sent left an entry not before t1, no entry ever goes
\* back, and a call within the interval after the entry sends nothing.
AlertStep == CallStep /\ lastCall'.via = "direct"

C29_WithinIntervalNoTransport ==
    /\ [][(AlertStep /\ Delivered(lastCall')) =>
            /\ lastCall'.person_name \in DOMAIN last_alert_time'
            /\ last_alert_time'[lastCall'.person_name] >= lastCall'.t]_vars
    /\ [][\A n \in DOMAIN last_alert_time :
            /\ n \in DOMAIN last_alert_time'
            /\ last_alert_time'[n] >= last_alert_time[n]]_vars
    /\ [][(/\ AlertStep
           /\ lastCall'.person_name \in DOMAIN last_alert_time
           /\ lastCall'.t - last_alert_time[lastCall'.person_name]
                 < MIN_DETECTION_INTERVAL) =>
            /\ lastCall'.suppressed
            /\ lastCall'.attempts = <<>>
            /\ last_alert_time' = last_alert_time]_vars

\* A call for an identity inside the interval after its alert was sent: it
\* was suppressed and tried no send.
C29_Witness ==
    /\ lastCall.via = "direct"
    /\ lastCall.suppressed
    /\ lastCall.attempts = <<>>
    /\ lastCall.entry > 0
    /\ lastCall.t > lastCall.entry
    /\ lastCall.t - lastCall.entry < MIN_DETECTION_INTERVAL

\* C30 (as claimed): the first alert requested for an identity that has no
\* entry in last_alert_time is never suppressed, whatever the clock reads.
FirstAlertStep ==
    AlertStep /\ lastCall'.person_name \notin DOMAIN last_alert_time

C30_FirstAlertNeverSuppressed ==
    [][FirstAlertStep => ~lastCall'.suppressed]_vars

\* C30 (amended): the first alert requested for an identity that has no
\* entry is not suppressed when the clock reads at least
\* MIN_DETECTION_INTERVAL seconds after the epoch (the absent entry is
\* read as time 0); before that it is suppressed like any other.
C30_FirstAlertSuppressedOnlyAtEpoch ==
    [][FirstAlertStep =>
          (lastCall'.suppressed <=> lastCall'.t < MIN_DETECTION_INTERVAL)]_vars

\* A first alert at a late clock reading went to the transport, after an
\* alert for another identity had been recorded.
C30_Witness ==
    /\ lastCall.via = "direct"
    /\ ~lastCall.suppressed
    /\ lastCall.entry = 0
    /\ lastCall.attempts # <<>>
    /\ lastCall.t >= MIN_DETECTION_INTERVAL
    /\ \E n \in DOMAIN last_alert_time :
          n # lastCall.person_name /\ last_alert_time[n] < lastCall.t

\* C31: rate limiting is per identity: a call of send_detection_alert for
\* identity A, dispatched or suppressed, leaves the entry of every other
\* identity B as it was (absent or the same time), and whether a call for B
\* is suppressed depends on B's own entry and the clock only.
OthersUntouched(name) ==
    \A n \in ((DOMAIN last_alert_time) \cup (DOMAIN last_alert_time')) \ {name} :
        /\ n \in DOMAIN last_alert_time
        /\ n \in DOMAIN last_alert_time'
        /\ last_alert_time'[n] = last_alert_time[n]

C31_RateLimitPerIdentity ==
    /\ [][AlertStep => OthersUntouched(lastCall'.person_name)]_vars
    /\ [][AlertStep =>
            (lastCall'.suppressed <=>
                lastCall'.t - TableGet(last_alert_time, lastCall'.person_name)
                    < MIN_DETECTION_INTERVAL)]_vars

\* An alert for B went to the transport inside the interval after the
\* alert for A was recorded.
C31_Witness ==
    /\ lastCall.via = "direct"
    /\ ~lastCall.suppressed
    /\ lastCall.attempts # <<>>
    /\ \E n \in DOMAIN last_alert_time :
        /\ n # lastCall.person_name
        /\ last_alert_time[n] <= lastCall.t
        /\ lastCall.t - last_alert_time[n] < MIN_DETECTION_INTERVAL

\* C32 (as claimed): a stop request is never lost: once stop() has been
\* called on the controller, also before run() has started, the loop test
\* of run() starts no further frame read and run() goes on to its cleanup.
C32_StopNeverLost ==
    [][(stop_requested /\ pc = "loop" /\ ~SignalStep) => pc' # "read"]_vars

\* C33: the device handle is never used after release: in every execution,
\* shutdown by exception or by signal included, cap.read() is never called
\* on the released device, and once _cleanup has released the device the
\* process is outside the frame loop for good.
C33_NoReadAfterRelease ==
    /\ [](~read_released)
    /\ [](cap = "released" => ~InRunTry)
    /\ [][cap = "released" => cap' = "released"]_vars

\* A signal ended a loop that had read a frame, and _cleanup released the
\* device.
C33_Witness ==
    /\ cap = "released"
    /\ signalled
    /\ frames >= 1
    /\ cleanups >= 1
    /\ ~read_released

=============================================================================
